---- MODULE Spec2Model ----
(***************************************************************************)
(* Model of src/main.py: a file of name;value lines is cut into fixed-size *)
(* segments, every segment is scanned by process_segment on a thread pool, *)
(* the per-segment tables are folded by merge_results and the merged table *)
(* is written, sorted by name, to output.txt.                              *)
(*                                                                         *)
(* Bytes are their numeric codes; offsets are 0-based as in the source.    *)
(***************************************************************************)
EXTENDS Integers, Sequences, FiniteSets, TLC

\* ------------------------------------------------------------------------
\* Program constants
\* ------------------------------------------------------------------------
MIN_TEMP == -999
MAX_TEMP == 999
LOOKAHEAD == 1000

NL == 10
SEMI == 59
MINUS == 45
DOT == 46
ZERO == 48
NINE == 57

\* ------------------------------------------------------------------------
\* Bounds of the model
\* ------------------------------------------------------------------------
MaxLines == 3
MaxSegmentSize == 24
MaxWorkers == 2
MaxScanLen == 4
MaxDigits == 2
NumTables == 3

Min(a, b) == IF a < b THEN a ELSE b
Max(a, b) == IF a > b THEN a ELSE b

\* mm[p] for a 0-based offset p
At(mm, p) == mm[p + 1]

\* mm[a:b]
Slice(mm, a, b) == IF a < b THEN SubSeq(mm, a + 1, b) ELSE <<>>

\* ------------------------------------------------------------------------
\* class Result
\* ------------------------------------------------------------------------
Result == [name |-> <<>>, min |-> MAX_TEMP, max |-> MIN_TEMP, sum |-> 0, count |-> 0]

\* accumulate taking the other record's min instead of the smaller one
accumulate_other_min(self, other) ==
    [self EXCEPT !.min = other.min,
                 !.max = Max(self.max, other.max),
                 !.sum = self.sum + other.sum,
                 !.count = self.count + other.count]

accumulate(self, other) ==
    [self EXCEPT !.min = Min(self.min, other.min),
                 !.max = Max(self.max, other.max),
                 !.sum = self.sum + other.sum,
                 !.count = self.count + other.count]

\* ------------------------------------------------------------------------
\* class Scanner
\* ------------------------------------------------------------------------
RECURSIVE find_delimiter(_, _, _)
find_delimiter(mm, pos, end) ==
    IF pos < end
    THEN IF At(mm, pos) = SEMI THEN pos ELSE find_delimiter(mm, pos + 1, end)
    ELSE -1

RECURSIVE find_newline(_, _, _)
find_newline(mm, pos, end) ==
    IF pos < end
    THEN IF At(mm, pos) = NL THEN pos ELSE find_newline(mm, pos + 1, end)
    ELSE end

IsDigit(b) == b >= ZERO /\ b <= NINE

\* the loop of lines 86-88: digits before the decimal point
RECURSIVE ScanDigits(_, _, _, _)
ScanDigits(mm, pos, end, value) ==
    IF pos < end /\ IsDigit(At(mm, pos))
    THEN ScanDigits(mm, pos + 1, end, value * 10 + (At(mm, pos) - ZERO))
    ELSE [value |-> value, pos |-> pos]

\* scan_number without the scaling of line 100
scan_number_unscaled(mm, pos0, end) ==
    LET p1 == pos0 + 1 IN
    IF p1 >= Len(mm)
    THEN [raised |-> TRUE, value |-> 0, pos |-> pos0]
    ELSE LET neg == At(mm, p1) = MINUS
             sign == IF neg THEN -1 ELSE 1
             p2 == IF neg THEN p1 + 1 ELSE p1
             d == ScanDigits(mm, p2, end, 0)
             hasdot == d.pos < end /\ At(mm, d.pos) = DOT
             p3 == d.pos + 1
             hasfrac == hasdot /\ p3 < end /\ IsDigit(At(mm, p3))
             value == IF hasfrac THEN d.value * 10 + (At(mm, p3) - ZERO) ELSE d.value
             pos == IF hasdot THEN (IF hasfrac THEN p3 + 1 ELSE p3) ELSE d.pos
         IN [raised |-> FALSE, value |-> sign * value, pos |-> pos]

\* scan_number with the cursor on the ';'.  self.mm[pos] at line 80 is not
\* guarded by self.end: an offset equal to len(mm) raises IndexError.
scan_number(mm, pos0, end) ==
    LET p1 == pos0 + 1 IN
    IF p1 >= Len(mm)
    THEN [raised |-> TRUE, value |-> 0, pos |-> pos0]
    ELSE LET neg == At(mm, p1) = MINUS
             sign == IF neg THEN -1 ELSE 1
             p2 == IF neg THEN p1 + 1 ELSE p1
             d == ScanDigits(mm, p2, end, 0)
             hasdot == d.pos < end /\ At(mm, d.pos) = DOT
             p3 == d.pos + 1
             hasfrac == hasdot /\ p3 < end /\ IsDigit(At(mm, p3))
             value == IF hasdot
                      THEN IF hasfrac THEN d.value * 10 + (At(mm, p3) - ZERO)
                                      ELSE d.value
                      ELSE d.value * 10
             pos == IF hasdot THEN (IF hasfrac THEN p3 + 1 ELSE p3) ELSE d.pos
         IN [raised |-> FALSE, value |-> sign * value, pos |-> pos]

\* bytes.decode('utf-8') of a name.  Every byte below 128 decodes to the code
\* point of the same number; the only other byte of the model's alphabet is
\* 0xFF, which no UTF-8 sequence contains, so decoding raises on it.
DecodeRaises(bytes) == \E i \in 1..Len(bytes) : bytes[i] >= 128

read_name(mm, start_pos, end_pos) == Slice(mm, start_pos, end_pos)

\* ------------------------------------------------------------------------
\* process_segment
\* ------------------------------------------------------------------------
\* lines 117-122
AdjustStart(mm, segment_start, file_start, file_end) ==
    IF segment_start > file_start
    THEN LET nl_pos == find_newline(mm, segment_start,
                                    Min(segment_start + LOOKAHEAD, file_end))
         IN IF nl_pos >= 0 THEN nl_pos + 1 ELSE segment_start
    ELSE segment_start

\* lines 124-129, segment_start being the adjusted start
AdjustEnd(mm, segment_start, segment_end, file_end) ==
    IF segment_end < file_end
    THEN LET nl_pos == find_newline(mm, Max(segment_start, segment_end - LOOKAHEAD),
                                    segment_end)
         IN IF nl_pos >= 0 THEN nl_pos + 1 ELSE segment_end
    ELSE segment_end

\* the update of lines 153-166 without the count += 1 of line 166
UpdateResults_count_kept(results, name, temperature) ==
    IF name \notin DOMAIN results
    THEN results @@ (name :> [name |-> name, min |-> temperature, max |-> temperature,
                              sum |-> temperature, count |-> 1])
    ELSE [results EXCEPT ![name] =
             [@ EXCEPT !.min = Min(@, temperature),
                       !.max = Max(@, temperature),
                       !.sum = @ + temperature]]

\* lines 153-166
UpdateResults(results, name, temperature) ==
    IF name \notin DOMAIN results
    THEN results @@ (name :> [name |-> name, min |-> temperature, max |-> temperature,
                              sum |-> temperature, count |-> 1])
    ELSE [results EXCEPT ![name] =
             [@ EXCEPT !.min = Min(@, temperature),
                       !.max = Max(@, temperature),
                       !.sum = @ + temperature,
                       !.count = @ + 1]]

\* one pass through the body of the while loop of lines 134-166, entered with
\* has_next() true.  kind is "next" (the body ran to its end), "break"
\* (line 140) or "raise" (an exception left the function).
ScanIteration(mm, end, pos, results) ==
    LET delim_pos == find_delimiter(mm, pos, end) IN
    IF delim_pos < 0
    THEN [kind |-> "break", pos |-> pos, results |-> results]
    ELSE IF DecodeRaises(read_name(mm, pos, delim_pos))
    THEN [kind |-> "raise", pos |-> pos, results |-> results]
    ELSE LET name == read_name(mm, pos, delim_pos)
             num == scan_number(mm, delim_pos, end)
         IN IF num.raised
            THEN [kind |-> "raise", pos |-> delim_pos, results |-> results]
            ELSE LET nl_pos == find_newline(mm, num.pos, end)
                     newpos == IF nl_pos >= 0 THEN nl_pos + 1 ELSE end
                 IN [kind |-> "next", pos |-> newpos,
                     results |-> UpdateResults(results, name, num.value)]

RECURSIVE ScanLoop(_, _, _, _)
ScanLoop(mm, end, pos, results) ==
    IF pos < end
    THEN LET it == ScanIteration(mm, end, pos, results) IN
         IF it.kind = "next" THEN ScanLoop(mm, end, it.pos, it.results)
         ELSE [raised |-> it.kind = "raise", results |-> it.results]
    ELSE [raised |-> FALSE, results |-> results]

EmptyTable == [n \in {} |-> Result]

\* start and end are the adjusted bounds the main scanner is built with
process_segment(mm, segment_start, segment_end, file_start, file_end) ==
    LET start == AdjustStart(mm, segment_start, file_start, file_end)
        end == AdjustEnd(mm, start, segment_end, file_end)
        run == ScanLoop(mm, end, start, EmptyTable)
    IN [raised |-> run.raised, results |-> run.results, start |-> start, end |-> end]

\* ------------------------------------------------------------------------
\* merge_results
\* ------------------------------------------------------------------------
\* the inner loop of lines 175-179 for one table
MergeTable(merged, results) ==
    [n \in DOMAIN merged \cup DOMAIN results |->
        IF n \notin DOMAIN merged THEN results[n]
        ELSE IF n \in DOMAIN results THEN accumulate(merged[n], results[n])
        ELSE merged[n]]

RECURSIVE MergeFrom(_, _, _)
MergeFrom(all_results, i, merged) ==
    IF i > Len(all_results) THEN merged
    ELSE MergeFrom(all_results, i + 1, MergeTable(merged, all_results[i]))

merge_results(all_results) == MergeFrom(all_results, 1, EmptyTable)

\* merged[name] = result at line 177 stores the partial table's own Result
\* object, and accumulate then mutates it: after the merge the first partial
\* table that holds a name holds the merged record.
FirstWith(all_results, n) ==
    CHOOSE i \in 1..Len(all_results) :
        /\ n \in DOMAIN all_results[i]
        /\ \A j \in 1..(i - 1) : n \notin DOMAIN all_results[j]

AfterMerge(all_results) ==
    LET merged == merge_results(all_results) IN
    [i \in 1..Len(all_results) |->
        [n \in DOMAIN all_results[i] |->
            IF FirstWith(all_results, n) = i THEN merged[n] ELSE all_results[i][n]]]

\* ------------------------------------------------------------------------
\* calculate_average: segments and the sorted report
\* ------------------------------------------------------------------------
\* lines 192-196: range(0, file_size, SEGMENT_SIZE)
NumSegments(file_size, seg) == (file_size + seg - 1) \div seg

Segments(file_size, seg) ==
    [k \in 1..NumSegments(file_size, seg) |->
        [start |-> (k - 1) * seg, end |-> Min((k - 1) * seg + seg, file_size)]]

\* order of str: code point by code point, a proper prefix first
RECURSIVE LexLess(_, _)
LexLess(a, b) ==
    IF Len(a) = 0 THEN Len(b) > 0
    ELSE IF Len(b) = 0 THEN FALSE
    ELSE IF a[1] # b[1] THEN a[1] < b[1]
    ELSE LexLess(Tail(a), Tail(b))

RECURSIVE SortedNames(_)
SortedNames(S) ==
    IF S = {} THEN <<>>
    ELSE LET m == CHOOSE x \in S : \A y \in S \ {x} : LexLess(x, y)
         IN <<m>> \o SortedNames(S \ {m})

\* lines 213-224: one line per name, in sorted order.  A line is kept as the
\* name with the three numbers it renders (min, sum/count, max).
ReportLines(merged) ==
    LET names == SortedNames(DOMAIN merged) IN
    [k \in 1..Len(names) |->
        [name |-> names[k], min |-> merged[names[k]].min,
         sum |-> merged[names[k]].sum, count |-> merged[names[k]].count,
         max |-> merged[names[k]].max]]

\* ------------------------------------------------------------------------
\* Input files of the model
\* ------------------------------------------------------------------------
\* "a;5", "b;-0.5", "a;7.5" are lines of the input format; "x" has no
\* delimiter, "a;" has an empty value, and 0xFF ";5" has a name that is not
\* UTF-8.
Lines ==
    { <<97, 59, 53>>, <<98, 59, 45, 48, 46, 53>>, <<97, 59, 55, 46, 53>>,
      <<120>>, <<97, 59>>, <<255, 59, 53>> }

RECURSIVE JoinLines(_)
JoinLines(ls) ==
    IF Len(ls) = 0 THEN <<>>
    ELSE IF Len(ls) = 1 THEN ls[1]
    ELSE ls[1] \o <<NL>> \o JoinLines(Tail(ls))

\* the lines joined by '\n', the final terminator optional
FileOf(ls, terminated) == JoinLines(ls) \o (IF terminated THEN <<NL>> ELSE <<>>)

LineSeqs == UNION { [1..n -> Lines] : n \in 0..MaxLines }

Files == { FileOf(ls, t) : ls \in LineSeqs, t \in BOOLEAN }

\* SEGMENT_SIZE is 1 << 21 in the source; here it ranges over sizes that let
\* a file of a few lines span one, two or several segments
SegmentSizes == { MaxSegmentSize \div 4, MaxSegmentSize \div 2, MaxSegmentSize }

\* ------------------------------------------------------------------------
\* State
\* ------------------------------------------------------------------------
VARIABLES
    mm,              \* the mapped input file
    segment_size,    \* SEGMENT_SIZE
    num_workers,     \* os.cpu_count() or 4
    pc,              \* where calculate_average stands
    futures,         \* the submitted tasks, in submission order
    all_results,     \* the tables collected so far
    merged_results,  \* the merged table
    output_created,  \* output.txt has been opened for writing
    output,          \* the lines written to output.txt
    status,          \* what calculate_average returned
    scanner,         \* a Scanner running the loop of process_segment on its own
    tables           \* partial tables being reduced on their own

vars == <<mm, segment_size, num_workers, pc, futures, all_results, merged_results,
          output_created, output, status, scanner, tables>>

NoScanner == [state |-> "none"]
NoTables == [state |-> "none"]

Init ==
    /\ mm \in Files
    /\ segment_size \in SegmentSizes
    /\ num_workers \in 1..MaxWorkers
    /\ pc = "start"
    /\ futures = <<>>
    /\ all_results = <<>>
    /\ merged_results = EmptyTable
    /\ output_created = FALSE
    /\ output = <<>>
    /\ status = "running"
    /\ scanner = NoScanner
    /\ tables = NoTables

\* ------------------------------------------------------------------------
\* calculate_average
\* ------------------------------------------------------------------------
\* lines 186-201.  mmap.mmap(fileno, 0) raises ValueError on an empty file,
\* which the except clause of line 226 turns into return 1.  Otherwise the
\* segments are built and every one is submitted to the executor.
Open ==
    /\ pc = "start"
    /\ IF Len(mm) = 0
       THEN /\ pc' = "failed"
            /\ status' = "returned_1"
            /\ UNCHANGED futures
       ELSE /\ pc' = "collect"
            /\ futures' = [k \in 1..NumSegments(Len(mm), segment_size) |->
                             [state |-> "pending", raised |-> FALSE,
                              results |-> EmptyTable,
                              segment |-> Segments(Len(mm), segment_size)[k],
                              start |-> 0, end |-> 0]]
            /\ UNCHANGED status
    /\ UNCHANGED <<mm, segment_size, num_workers, all_results, merged_results,
                   output_created, output, scanner, tables>>

Running == { k \in 1..Len(futures) : futures[k].state = "running" }

\* a pool thread takes the oldest queued task
StartTask(k) ==
    /\ pc \in {"collect", "raising"}
    /\ k \in 1..Len(futures)
    /\ futures[k].state = "pending"
    /\ \A j \in 1..(k - 1) : futures[j].state # "pending"
    /\ Cardinality(Running) < num_workers
    /\ futures' = [futures EXCEPT ![k].state = "running"]
    /\ UNCHANGED <<mm, segment_size, num_workers, pc, all_results, merged_results,
                   output_created, output, status, scanner, tables>>

\* the thread runs process_segment(mm, start, end, 0, file_size) to its end
FinishTask(k) ==
    /\ k \in 1..Len(futures)
    /\ futures[k].state = "running"
    /\ LET r == process_segment(mm, futures[k].segment.start, futures[k].segment.end,
                                0, Len(mm))
       IN futures' = [futures EXCEPT ![k].state = "done",
                                     ![k].raised = r.raised,
                                     ![k].results = r.results,
                                     ![k].start = r.start,
                                     ![k].end = r.end]
    /\ UNCHANGED <<mm, segment_size, num_workers, pc, all_results, merged_results,
                   output_created, output, status, scanner, tables>>

\* the collection loop taking the table of a task that raised as an empty
\* result instead of re-raising
Collect_swallowing ==
    /\ pc = "collect"
    /\ Len(all_results) < Len(futures)
    /\ LET f == futures[Len(all_results) + 1] IN
       /\ f.state = "done"
       /\ all_results' = Append(all_results, f.results)
       /\ UNCHANGED pc
    /\ UNCHANGED <<mm, segment_size, num_workers, futures, merged_results,
                   output_created, output, status, scanner, tables>>

\* lines 203-204: future.result() of the next future, in submission order;
\* it returns the task's table or raises the task's exception
Collect ==
    /\ pc = "collect"
    /\ Len(all_results) < Len(futures)
    /\ LET f == futures[Len(all_results) + 1] IN
       /\ f.state = "done"
       /\ IF f.raised
          THEN /\ pc' = "raising"
               /\ UNCHANGED all_results
          ELSE /\ all_results' = Append(all_results, f.results)
               /\ UNCHANGED pc
    /\ UNCHANGED <<mm, segment_size, num_workers, futures, merged_results,
                   output_created, output, status, scanner, tables>>

\* the exception leaves the with block of line 199, whose exit waits for
\* every submitted task, and is caught at line 226
Abort ==
    /\ pc = "raising"
    /\ \A k \in 1..Len(futures) : futures[k].state = "done"
    /\ pc' = "failed"
    /\ status' = "returned_1"
    /\ UNCHANGED <<mm, segment_size, num_workers, futures, all_results, merged_results,
                   output_created, output, scanner, tables>>

\* line 206, after every future has been collected
Merge ==
    /\ pc = "collect"
    /\ Len(all_results) = Len(futures)
    /\ merged_results' = merge_results(all_results)
    /\ all_results' = AfterMerge(all_results)
    /\ futures' = [k \in 1..Len(futures) |->
                      [futures[k] EXCEPT !.results = AfterMerge(all_results)[k]]]
    /\ pc' = "write"
    /\ UNCHANGED <<mm, segment_size, num_workers, output_created, output, status,
                   scanner, tables>>

\* lines 209-224, then the function returns None
WriteOutput ==
    /\ pc = "write"
    /\ output_created' = TRUE
    /\ output' = ReportLines(merged_results)
    /\ pc' = "done"
    /\ status' = "returned_None"
    /\ UNCHANGED <<mm, segment_size, num_workers, futures, all_results, merged_results,
                   scanner, tables>>

Next ==
    \/ Open
    \/ \E k \in 1..Len(futures) : StartTask(k)
    \/ \E k \in 1..Len(futures) : FinishTask(k)
    \/ Collect
    \/ Abort
    \/ Merge
    \/ WriteOutput

Spec == Init /\ [][Next]_vars

\* ------------------------------------------------------------------------
\* The input format of spec section 6, used to state the claims
\* ------------------------------------------------------------------------
RECURSIVE SplitLines(_)
SplitLines(bytes) ==
    IF Len(bytes) = 0 THEN <<>>
    ELSE LET nl == find_newline(bytes, 0, Len(bytes)) IN
         IF nl = Len(bytes) THEN <<bytes>>
         ELSE <<Slice(bytes, 0, nl)>> \o SplitLines(Slice(bytes, nl + 1, Len(bytes)))

\* -?[0-9]+(\.[0-9])?
ValidValue(v) ==
    LET body == IF Len(v) > 0 /\ v[1] = MINUS THEN Tail(v) ELSE v IN
    \E k \in 1..Len(body) :
        /\ \A i \in 1..k : IsDigit(body[i])
        /\ \/ Len(body) = k
           \/ Len(body) = k + 2 /\ body[k + 1] = DOT /\ IsDigit(body[k + 2])

HasDelimiter(line) == \E i \in 1..Len(line) : line[i] = SEMI

FirstDelimiter(line) == CHOOSE d \in 1..Len(line) :
                            line[d] = SEMI /\ \A i \in 1..(d - 1) : line[i] # SEMI

ValueField(line) == SubSeq(line, FirstDelimiter(line) + 1, Len(line))

\* <name>;<value> with a UTF-8 name
ValidLine(line) ==
    /\ HasDelimiter(line)
    /\ FirstDelimiter(line) > 1
    /\ \A i \in 1..(FirstDelimiter(line) - 1) : line[i] < 128
    /\ ValidValue(ValueField(line))

\* no delimiter, or a value outside the grammar
MalformedLine(line) ==
    \/ ~HasDelimiter(line)
    \/ HasDelimiter(line) /\ ~ValidValue(ValueField(line))

ValidFile(bytes) == \A i \in 1..Len(SplitLines(bytes)) : ValidLine(SplitLines(bytes)[i])

\* exactly one malformed line among valid lines
MalformedAt(bytes, i) ==
    /\ i \in 1..Len(SplitLines(bytes))
    /\ MalformedLine(SplitLines(bytes)[i])
    /\ \A j \in 1..Len(SplitLines(bytes)) : j # i => ValidLine(SplitLines(bytes)[j])

RemoveAt(s, i) == SubSeq(s, 1, i - 1) \o SubSeq(s, i + 1, Len(s))

\* the same file with line i absent
WithoutLine(bytes, i) ==
    FileOf(RemoveAt(SplitLines(bytes), i),
           Len(bytes) > 0 /\ bytes[Len(bytes)] = NL /\ Len(SplitLines(bytes)) > 1)

RECURSIVE SumCounts(_)
SumCounts(table) ==
    IF DOMAIN table = {} THEN 0
    ELSE LET n == CHOOSE x \in DOMAIN table : TRUE IN
         table[n].count + SumCounts([m \in DOMAIN table \ {n} |-> table[m]])

RECURSIVE TotalCount(_)
TotalCount(ts) == IF Len(ts) = 0 THEN 0 ELSE SumCounts(ts[1]) + TotalCount(Tail(ts))

\* the table a run over a file yields when no task raises
PipelineTable(bytes, seg) ==
    merge_results([k \in 1..NumSegments(Len(bytes), seg) |->
        process_segment(bytes, Segments(Len(bytes), seg)[k].start,
                        Segments(Len(bytes), seg)[k].end, 0, Len(bytes)).results])

AllTasksDone == pc # "start" /\ \A k \in 1..Len(futures) : futures[k].state = "done"
Ended == pc \in {"done", "failed"}
SomeTaskRaised == \E k \in 1..Len(futures) : futures[k].state = "done" /\ futures[k].raised

\* the bytes a task's main scanner ranges over
Scanned(k) == { p \in 0..(Len(mm) - 1) : futures[k].start <= p /\ p < futures[k].end }

\* ------------------------------------------------------------------------
\* Claims
\* ------------------------------------------------------------------------
\* C1: once every task has run, the byte ranges the tasks scanned (segment
\* bounds after the adjustment of process_segment) are pairwise disjoint,
\* their union is [0,S), and every bound of a non-empty range other than 0
\* and S lies immediately after a '\n'.
C1_RangesTileFile ==
    AllTasksDone =>
        /\ \A j, k \in 1..Len(futures) : j # k => Scanned(j) \cap Scanned(k) = {}
        /\ UNION { Scanned(k) : k \in 1..Len(futures) } = 0..(Len(mm) - 1)
        /\ \A k \in 1..Len(futures) :
              Scanned(k) # {} =>
                 \A c \in {futures[k].start, futures[k].end} :
                    c \notin {0, Len(mm)} => c <= Len(mm) /\ At(mm, c - 1) = NL

\* C2: for a valid input file, when every task's table has been collected the
\* counts of all per-segment tables sum to the number of records a single
\* scan of the whole file as one range finds.
C2_CountsMatchSingleScan ==
    (ValidFile(mm) /\ pc = "collect" /\ Len(all_results) = Len(futures)) =>
        TotalCount(all_results) =
            SumCounts(process_segment(mm, 0, Len(mm), 0, Len(mm)).results)

\* C4: when one malformed line stands among valid lines, the run ends without
\* failure and the merged table is the table of the same file without that
\* line.
C4_MalformedLineSkipped ==
    \A i \in 1..Len(SplitLines(mm)) :
        (Ended /\ MalformedAt(mm, i)) =>
            /\ pc = "done"
            /\ merged_results = PipelineTable(WithoutLine(mm, i), segment_size)

\* C5: on an empty input file the run ends without the failure status and
\* output.txt exists and is empty.
C5_EmptyInputEmptyOutput ==
    (Ended /\ Len(mm) = 0) =>
        status # "returned_1" /\ output_created /\ output = <<>>

\* C6: once a task has raised, nothing is merged and nothing is written, and
\* the run can only end in failure with status 1.
C6_WorkerFailureAborts ==
    SomeTaskRaised =>
        /\ merged_results = EmptyTable
        /\ ~output_created
        /\ output = <<>>
        /\ pc \in {"collect", "raising", "failed"}
        /\ Ended => status = "returned_1"

\* a run that failed on one task while another task had found records
C6_Witness ==
    /\ pc = "failed"
    /\ status = "returned_1"
    /\ SomeTaskRaised
    /\ \E k \in 1..Len(futures) : ~futures[k].raised /\ DOMAIN futures[k].results # {}

RecordOk(r) == r.count >= 1 /\ r.min * r.count <= r.sum /\ r.sum <= r.max * r.count

TableOk(t) == \A n \in DOMAIN t : RecordOk(t[n])

\* C7: every record of every per-segment table and of the merged table has
\* count >= 1 and min*count <= sum <= max*count.
C7_RecordInvariant ==
    /\ \A k \in 1..Len(futures) : TableOk(futures[k].results)
    /\ \A k \in 1..Len(all_results) : TableOk(all_results[k])
    /\ TableOk(merged_results)

\* a merged record that two tables contributed to, with distinct min and max
C7_Witness ==
    /\ pc = "done"
    /\ \E n \in DOMAIN merged_results :
          /\ merged_results[n].count >= 3
          /\ merged_results[n].min < merged_results[n].max
          /\ Cardinality({k \in 1..Len(futures) : n \in DOMAIN futures[k].results}) >= 2

\* ------------------------------------------------------------------------
\* The scan loop of process_segment on its own, one iteration per step
\* ------------------------------------------------------------------------
MainIdle ==
    /\ segment_size = MaxSegmentSize
    /\ num_workers = 1
    /\ pc = "none"
    /\ futures = <<>>
    /\ all_results = <<>>
    /\ merged_results = EmptyTable
    /\ output_created = FALSE
    /\ output = <<>>
    /\ status = "running"

\* 'a', ';', '\n', '-', '.', '5'
ScanAlphabet == {97, SEMI, NL, MINUS, DOT, 53}

ScanContents == UNION { [1..n -> ScanAlphabet] : n \in 0..MaxScanLen }

\* Scanner(mm, segment_start, segment_end) of line 132, on a range [0, end)
\* of a file that may go on past the range
InitScan ==
    /\ mm \in ScanContents
    /\ \E e \in 0..Len(mm) :
          scanner = [state |-> "loop", pos |-> 0, end |-> e, prev |-> 0,
                     last |-> "none", results |-> EmptyTable]
    /\ tables = NoTables
    /\ MainIdle

\* has_next() holds and the loop body runs once
ScanStep ==
    /\ scanner.state = "loop"
    /\ scanner.pos < scanner.end
    /\ LET it == ScanIteration(mm, scanner.end, scanner.pos, scanner.results) IN
       scanner' = [scanner EXCEPT
                      !.state = IF it.kind = "next" THEN "loop"
                                ELSE IF it.kind = "break" THEN "done" ELSE "raised",
                      !.prev = scanner.pos,
                      !.pos = it.pos,
                      !.last = it.kind,
                      !.results = it.results]
    /\ UNCHANGED <<mm, segment_size, num_workers, pc, futures, all_results,
                   merged_results, output_created, output, status, tables>>

\* has_next() fails and process_segment returns
ScanExit ==
    /\ scanner.state = "loop"
    /\ ~(scanner.pos < scanner.end)
    /\ scanner' = [scanner EXCEPT !.state = "done"]
    /\ UNCHANGED <<mm, segment_size, num_workers, pc, futures, all_results,
                   merged_results, output_created, output, status, tables>>

NextScan == ScanStep \/ ScanExit

SpecScan == InitScan /\ [][NextScan]_vars

\* the line the last iteration began on: from the old cursor to the next
\* '\n' of the range, or to the range end
LastLine == Slice(mm, scanner.prev, find_newline(mm, scanner.prev, scanner.end))

\* C9: an iteration of the scan loop that runs to its end leaves the cursor
\* strictly after its old position, and after a line that fails to parse the
\* cursor is at the start of the next line or at the range end.
C9_CursorAtNextLineOrEnd ==
    (scanner.state # "none" /\ scanner.last = "next") =>
        /\ scanner.pos > scanner.prev
        /\ MalformedLine(LastLine) =>
              \/ scanner.pos = scanner.end
              \/ scanner.pos < scanner.end /\ At(mm, scanner.pos - 1) = NL

\* ------------------------------------------------------------------------
\* scan_number on its own
\* ------------------------------------------------------------------------
\* '0', '5', '7', '9'
NumDigits == {48, 53, 55, 57}

IntParts == UNION { [1..n -> NumDigits] : n \in 1..MaxDigits }

FracParts == {<<>>} \cup { <<DOT, d>> : d \in NumDigits }

\* what follows the value: nothing, a terminator, a terminator and a line,
\* or more bytes of a number
Follows == { <<>>, <<NL>>, <<NL, 98, 59, 53>>, <<53>>, <<DOT, 53>> }

\* "a;" then a value of the grammar then what follows it; the range ends at
\* the end of the file or right after the value
InitNum ==
    /\ \E sg \in {<<>>, <<MINUS>>}, ip \in IntParts, fp \in FracParts,
          fo \in Follows, cut \in BOOLEAN :
          /\ mm = <<97, SEMI>> \o sg \o ip \o fp \o fo
          /\ scanner = [state |-> "number", pos |-> 1, delim |-> 1,
                        end |-> IF cut THEN 2 + Len(sg) + Len(ip) + Len(fp)
                                       ELSE Len(mm),
                        called |-> FALSE, raised |-> FALSE, value |-> 0]
    /\ tables = NoTables
    /\ MainIdle

\* temperature = scanner.scan_number() of line 146
ScanNumber ==
    /\ scanner.state = "number"
    /\ ~scanner.called
    /\ LET r == scan_number(mm, scanner.pos, scanner.end) IN
       scanner' = [scanner EXCEPT !.called = TRUE, !.raised = r.raised,
                                  !.value = r.value, !.pos = r.pos]
    /\ UNCHANGED <<mm, segment_size, num_workers, pc, futures, all_results,
                   merged_results, output_created, output, status, tables>>

NextNum == ScanNumber

SpecNum == InitNum /\ [][NextNum]_vars

RECURSIVE Pow10(_)
Pow10(n) == IF n = 0 THEN 1 ELSE 10 * Pow10(n - 1)

RECURSIVE DigitsValue(_)
DigitsValue(ds) ==
    IF Len(ds) = 0 THEN 0
    ELSE (ds[1] - ZERO) * Pow10(Len(ds) - 1) + DigitsValue(Tail(ds))

\* ten times the decimal number a value of the grammar denotes
TenTimes(v) ==
    LET neg == v[1] = MINUS
        body == IF neg THEN Tail(v) ELSE v
        frac == Len(body) >= 2 /\ body[Len(body) - 1] = DOT
        int == IF frac THEN SubSeq(body, 1, Len(body) - 2) ELSE body
        tenths == IF frac THEN body[Len(body)] - ZERO ELSE 0
    IN (IF neg THEN -1 ELSE 1) * (10 * DigitsValue(int) + tenths)

\* the value field under the scanner: from after the ';' to the next '\n' of
\* the range, or to the range end
FieldAfterDelim ==
    Slice(mm, scanner.delim + 1, find_newline(mm, scanner.delim + 1, scanner.end))

\* C10: called on the ';' before a value of the grammar that '\n' or the
\* range end follows, scan_number returns ten times the decimal value and
\* leaves the cursor right after the value.
C10_ScanNumberTenTimes ==
    (scanner.state = "number" /\ scanner.called /\ ValidValue(FieldAfterDelim)) =>
        /\ ~scanner.raised
        /\ scanner.value = TenTimes(FieldAfterDelim)
        /\ scanner.pos = scanner.delim + 1 + Len(FieldAfterDelim)

\* "-5.5" followed by a terminator has been scanned as -55
C10_Witness ==
    /\ scanner.state = "number"
    /\ scanner.called
    /\ FieldAfterDelim = <<MINUS, 53, DOT, 53>>
    /\ scanner.end > scanner.pos
    /\ At(mm, scanner.pos) = NL
    /\ scanner.value = -55

\* ------------------------------------------------------------------------
\* merge_results and accumulate on their own: partial tables reduced in any
\* order and grouping
\* ------------------------------------------------------------------------
Names == { <<97>>, <<98>> }

\* "-100.0", "7", "100.0" as scan_number returns them
Temps == { -1000, 70, 1000 }

\* the tables process_segment builds from at most one record
PartialTables ==
    {EmptyTable} \cup { UpdateResults(EmptyTable, n, t) : n \in Names, t \in Temps }

InitMerge ==
    /\ \E orig \in [1..NumTables -> PartialTables] :
          tables = [state |-> "reduce", original |-> orig, pool |-> orig]
    /\ mm = <<>>
    /\ scanner = NoScanner
    /\ MainIdle

\* two of the tables are replaced by merge_results of the pair
CombinePair(i, j) ==
    /\ tables.state = "reduce"
    /\ i \in 1..Len(tables.pool)
    /\ j \in 1..Len(tables.pool)
    /\ i # j
    /\ tables' = [tables EXCEPT !.pool =
                     RemoveAt([tables.pool EXCEPT
                                  ![i] = merge_results(<<tables.pool[i], tables.pool[j]>>)],
                              j)]
    /\ UNCHANGED <<mm, segment_size, num_workers, pc, futures, all_results,
                   merged_results, output_created, output, status, scanner>>

Orders(n) == { f \in [1..n -> 1..n] : \A a, b \in 1..n : f[a] = f[b] => a = b }

\* all the tables are folded at once, in some order
MergeAll(perm) ==
    /\ tables.state = "reduce"
    /\ Len(tables.pool) > 1
    /\ tables' = [tables EXCEPT !.pool =
                     << merge_results([k \in 1..Len(tables.pool) |-> tables.pool[perm[k]]]) >>]
    /\ UNCHANGED <<mm, segment_size, num_workers, pc, futures, all_results,
                   merged_results, output_created, output, status, scanner>>

NextMerge ==
    \/ \E i, j \in 1..NumTables : CombinePair(i, j)
    \/ \E perm \in Orders(Len(tables.pool)) : MergeAll(perm)

SpecMerge == InitMerge /\ [][NextMerge]_vars

Stats(r) == <<r.min, r.max, r.sum, r.count>>

PoolRecords ==
    UNION { { tables.pool[i][n] : n \in DOMAIN tables.pool[i] } :
                i \in 1..Len(tables.pool) }

\* C3: however the partial tables have been permuted and grouped so far,
\* merging what is left gives the table that merging the original list in
\* its order gives, and accumulate is commutative and associative on min,
\* max, sum and count.
C3_MergeOrderIndependent ==
    tables.state = "reduce" =>
        /\ merge_results(tables.pool) = merge_results(tables.original)
        /\ \A a, b, c \in PoolRecords :
              /\ Stats(accumulate(a, b)) = Stats(accumulate(b, a))
              /\ Stats(accumulate(accumulate(a, b), c)) =
                 Stats(accumulate(a, accumulate(b, c)))

\* three tables reduced to one whose record joins three distinct values
C3_Witness ==
    /\ tables.state = "reduce"
    /\ Len(tables.original) >= 3
    /\ Len(tables.pool) = 1
    /\ \E n \in DOMAIN tables.pool[1] :
          /\ tables.pool[1][n].count >= 3
          /\ tables.pool[1][n].min < 70
          /\ tables.pool[1][n].max > 70

\* C8: accumulating the record Result() constructs into a record with
\* count >= 1 leaves its min, max, sum and count unchanged.
C8_ResultIsIdentity ==
    tables.state = "reduce" =>
        \A r \in PoolRecords : r.count >= 1 => Stats(accumulate(r, Result)) = Stats(r)

====
